---- MODULE Spec2Model ----
(***************************************************************************)
(* Model of the client-side authorization and session-continuity code of   *)
(* cms-back-office: the Session Manager (AuthProvider), the HTTP client's  *)
(* 401 interceptor, the route table and the Access Guard (Secured), and    *)
(* the sidebar Rule Engine's permission matcher.                           *)
(*                                                                         *)
(* JavaScript values are modelled as follows.  null is the record Null.    *)
(* A string is the sequence of its characters, so that endsWith, slice and *)
(* startsWith are computed and not assumed.  An array that the code only   *)
(* reads through includes/some/length is the set of its elements, wrapped  *)
(* as Arr(S) so that a nullable array is Null or Arr(S).                   *)
(***************************************************************************)
EXTENDS Integers, Sequences, FiniteSets, TLC

VARIABLES
    user,        \* AuthProvider state `user`: Null or a User record
    isLoading,   \* AuthProvider state `isLoading`
    mounted,     \* TRUE once AuthProvider's first commit has run its effects
    startedOnLogin, \* window.location.pathname was '/login' when the process started
    path,        \* the router's current location
    hops,        \* <Navigate> redirects followed since the session or the user last moved
    props,       \* props of the mounted <Secured>
    decision,    \* what the mounted <Secured> rendered last
    inflight,    \* remote calls awaiting their response: request -> count
    calls,       \* number of remote calls issued by this process
    mountMe,     \* who-am-I requests issued by the mount effect of this process
    forcedNav,   \* the interceptor has assigned window.location.href = '/login'
    last,        \* the handler that ran last, with the response it consumed
    meReturned,  \* who-am-I responses this process has handled
    companies,   \* CompanyProvider state `companies`
    selectedCompany, \* CompanyProvider state `selectedCompany`: Null or a Company
    companyLoading,  \* CompanyProvider state `isLoading`
    csid,        \* localStorage item 'csid': NoItem or a company id
    csidWriter,  \* the operation that wrote or removed that item last
    tflight,     \* company fetches awaiting their response, with their closures
    picked,      \* Null, or the id setSelectedCompany was last called with while
                 \* fetches were in flight, with those of them still in flight
    sidebarRule, \* the Rule a caller of the Rule Engine has constructed, or Null
    ruleContext, \* the RuleContext a rule is evaluated against
    verdict      \* Null, or what sidebarRule.evaluate(ruleContext) returned

\* the state of CompanyProvider and the storage it writes
tenantVars ==
    << companies, selectedCompany, companyLoading, csid, csidWriter, tflight,
       picked >>

\* a rule of the sidebar, its context and its result
sidebarVars == << sidebarRule, ruleContext, verdict >>

vars == << user, isLoading, mounted, startedOnLogin, path, hops, props, decision,
           inflight, calls, mountMe, forcedNav, last, meReturned, companies,
           selectedCompany, companyLoading, csid, csidWriter, tflight, picked,
           sidebarRule, ruleContext, verdict >>

-----------------------------------------------------------------------------
(* Bounds of the model *)

\* remote calls one process may issue before the model stops issuing more
MaxCalls == 3
\* consecutive <Navigate> redirects the model follows before it stops
MaxHops == 3

-----------------------------------------------------------------------------
(* JavaScript values *)

Null == [null |-> TRUE]
Arr(S) == [items |-> S]

\* permission tokens, character by character
BlogView == << "b","l","o","g",".","v","i","e","w" >>
BlogCreate == << "b","l","o","g",".","c","r","e","a","t","e" >>
BlogStar == << "b","l","o","g",".","*" >>
BloggingCreate == << "b","l","o","g","g","i","n","g",".","c","r","e","a","t","e" >>
UserCreate == << "u","s","e","r",".","c","r","e","a","t","e" >>
CompanyView == << "c","o","m","p","a","n","y",".","v","i","e","w" >>

\* String.prototype.endsWith
EndsWith(s, suffix) ==
    /\ Len(s) >= Len(suffix)
    /\ SubSeq(s, Len(s) - Len(suffix) + 1, Len(s)) = suffix

\* String.prototype.startsWith
StartsWith(s, prefix) ==
    /\ Len(s) >= Len(prefix)
    /\ SubSeq(s, 1, Len(prefix)) = prefix

\* s.slice(0, -n)
DropLast(s, n) == SubSeq(s, 1, IF Len(s) >= n THEN Len(s) - n ELSE 0)

-----------------------------------------------------------------------------
(* Rule Engine *)

matchPermission(userPermissions, requiredPermission) ==
    IF requiredPermission \in userPermissions
    THEN TRUE
    ELSE IF EndsWith(requiredPermission, << ".", "*" >>)
         THEN \E perm \in userPermissions :
                  StartsWith(perm, DropLast(requiredPermission, 2))
         ELSE FALSE

\* hasPermission(permission).evaluate({permissions})
hasPermission(permission, permissions) == matchPermission(permissions, permission)

\* or(hasPermission(r1), hasPermission(r2), ...).evaluate({permissions}) for the tokens of R
orHasPermission(R, permissions) == \E r \in R : hasPermission(r, permissions)

\* A Rule is the record of the call that made it: its kind and the
\* arguments its evaluate closes over.  A RuleContext is a record of user,
\* permissions (a set) and features (Null when the property is not there).
RuleContext(u, permissions, features) ==
    [user |-> u, permissions |-> permissions, features |-> features]

\* hasPermission(permission), the Rule
hasPermissionRule(permission) == [kind |-> "hasPermission", permission |-> permission]

\* hasFeature(feature), the Rule
hasFeatureRule(feature) == [kind |-> "hasFeature", feature |-> feature]

\* isAuthenticated(), the Rule
isAuthenticatedRule == [kind |-> "isAuthenticated"]

\* hasRole(role), the Rule
hasRoleRule(role) == [kind |-> "hasRole", role |-> role]

\* and(...rules): a rest parameter takes any number of rules, none included
and(rules) == [kind |-> "and", rules |-> rules]

\* or(...rules)
or(rules) == [kind |-> "or", rules |-> rules]

\* a hasFeature that lets everything through when there are no features
hasFeatureFailOpen(feature, features) ==
    IF features = Null THEN TRUE ELSE feature \in features.items

\* hasFeature(feature).evaluate({features})
hasFeature(feature, features) ==
    IF features = Null THEN FALSE ELSE feature \in features.items

\* hasRole(role).evaluate({user})
hasRole(role, u) == IF u = Null THEN FALSE ELSE u.role = role

\* What evaluate returns is modelled with what it did: `value` is the
\* boolean, `visited` the rules without children whose evaluate ran, in
\* the order in which they ran.
Verdict(value, visited) == [value |-> value, visited |-> visited]

RECURSIVE evaluate(_, _), every(_, _), some(_, _), everyWholeArray(_, _)

\* an every that calls the callback on all the elements
everyWholeArray(rules, context) ==
    IF rules = << >>
    THEN Verdict(TRUE, << >>)
    ELSE LET first == evaluate(Head(rules), context)
             rest == everyWholeArray(Tail(rules), context)
         IN  Verdict(first.value /\ rest.value, first.visited \o rest.visited)

\* rules.every((rule) => rule.evaluate(context)): from the left, until a
\* callback returns false
every(rules, context) ==
    IF rules = << >>
    THEN Verdict(TRUE, << >>)
    ELSE LET first == evaluate(Head(rules), context)
         IN  IF ~first.value
             THEN Verdict(FALSE, first.visited)
             ELSE LET rest == every(Tail(rules), context)
                  IN  Verdict(rest.value, first.visited \o rest.visited)

\* rules.some((rule) => rule.evaluate(context)): from the left, until a
\* callback returns true
some(rules, context) ==
    IF rules = << >>
    THEN Verdict(FALSE, << >>)
    ELSE LET first == evaluate(Head(rules), context)
         IN  IF first.value
             THEN Verdict(TRUE, first.visited)
             ELSE LET rest == some(Tail(rules), context)
                  IN  Verdict(rest.value, first.visited \o rest.visited)

\* rule.evaluate(context)
evaluate(rule, context) ==
    CASE rule.kind = "hasPermission" ->
             Verdict(hasPermission(rule.permission, context.permissions), << rule >>)
      [] rule.kind = "hasFeature" ->
             Verdict(hasFeature(rule.feature, context.features), << rule >>)
      [] rule.kind = "isAuthenticated" ->
             Verdict(context.user # Null, << rule >>)
      [] rule.kind = "hasRole" ->
             Verdict(hasRole(rule.role, context.user), << rule >>)
      [] rule.kind = "and" -> every(rule.rules, context)
      [] rule.kind = "or" -> some(rule.rules, context)

-----------------------------------------------------------------------------
(* Identities *)

User(id, role, permissions, memberships) ==
    [id |-> id, role |-> role, permissions |-> permissions, companies |-> memberships]

UserIds == {"u1", "u2"}

\* the identities the server hands out: u1 before and after a permission
\* change, and the team member u2
Identities ==
    { User("u1", "owner", {BlogView, CompanyView, UserCreate}, << >>),
      User("u1", "owner", {BlogView}, << >>),
      User("u2", "team_member", {}, << "a" >>) }

\* a 200 answer of GET /auth/me whose body carries no id
NoIdPayload == [role |-> "", permissions |-> {}, companies |-> << >>]

\* bodies GET /auth/me may answer 200 with
MePayloads == Identities \cup {Null, NoIdPayload}

-----------------------------------------------------------------------------
(* Routes *)

LoginPath == "/login"
HomePath == "/"
\* a location no route names: it falls to the '*' route
UnmatchedPath == "/settings/account"

Route(layout, element, authenticated, permissions, features) ==
    [layout |-> layout, element |-> element, authenticated |-> authenticated,
     permissions |-> permissions, features |-> features]

RoutedPaths ==
    { LoginPath, HomePath, "/dashboard", "/posts/list", "/categories", "/tags",
      "/users/list", "/users/create", "/companies/overview",
      "/companies/members", "/companies", "/settings/profile" }

AllPaths == RoutedPaths \cup {UnmatchedPath}

\* the locations the model visits: one for each distinct route entry
\* (layout, element and requirements), and the unmatched one
Paths ==
    { LoginPath, HomePath, "/posts/list", "/users/create", "/companies/overview",
      "/settings/profile", UnmatchedPath }

\* a login route that demands a session
loginRouteAuthenticated == Route("Auth", "LoginPage", "true", Null, Null)

loginRoute == Route("Auth", "LoginPage", "false", Null, Null)

dashboardRoute == Route("Dashboard", "DashboardPage", "true", Null, Null)

notFoundRoute == Route("Auth", "DashboardPage", "false", Null, Null)

\* the route the router matches for location p
routes(p) ==
    CASE p = LoginPath -> loginRoute
      [] p = HomePath -> dashboardRoute
      [] p = "/dashboard" -> dashboardRoute
      [] p = "/posts/list" -> Route("Dashboard", "PostsPage", "true", Arr({BlogView}), Null)
      [] p = "/categories" -> Route("Dashboard", "CategoriesPage", "true", Arr({BlogView}), Null)
      [] p = "/tags" -> Route("Dashboard", "TagsPage", "true", Arr({BlogView}), Null)
      [] p = "/users/list" -> Route("Dashboard", "UsersPage", "true", Null, Null)
      [] p = "/users/create" -> Route("Dashboard", "DashboardPage", "true", Arr({UserCreate}), Null)
      [] p = "/companies/overview" -> Route("Dashboard", "CompanyOverviewPage", "true", Arr({CompanyView}), Null)
      [] p = "/companies/members" -> Route("Dashboard", "CompanyMembersPage", "true", Arr({CompanyView}), Null)
      [] p = "/companies" -> Route("Dashboard", "CompaniesPage", "true", Null, Null)
      [] p = "/settings/profile" -> Route("Dashboard", "ProfilePage", "true", Null, Null)
      [] OTHER -> notFoundRoute

\* the props AppRoutes passes to <Secured> for location p
SecuredProps(p) ==
    [authenticated |-> routes(p).authenticated,
     permissions |-> routes(p).permissions,
     features |-> routes(p).features]

-----------------------------------------------------------------------------
(* Access Guard *)

\* the context value isAuthenticated
isAuthenticated(u) == u # Null

\* `permissions && permissions.length > 0 && user`, then permissions.some(includes)
SecuredPermissionDenied(permissions, u) ==
    /\ permissions # Null
    /\ permissions.items # {}
    /\ u # Null
    /\ ~ \E permission \in permissions.items : permission \in u.permissions

\* the guard with the authentication redirect ahead of the loading check
SecuredRedirectsFirst(authenticated, permissions, features, loading, u) ==
    IF authenticated = "true" /\ ~isAuthenticated(u) THEN "RedirectToLogin"
    ELSE IF loading THEN "Pending"
    ELSE IF authenticated = "false" /\ isAuthenticated(u) /\ ~loading THEN "RedirectToHome"
    ELSE IF SecuredPermissionDenied(permissions, u) THEN "Forbidden"
    ELSE "Allow"

\* the guard without the branch that keeps signed-in users off public routes
SecuredNoHomeRedirect(authenticated, permissions, features, loading, u) ==
    IF loading THEN "Pending"
    ELSE IF authenticated = "true" /\ ~isAuthenticated(u) THEN "RedirectToLogin"
    ELSE IF SecuredPermissionDenied(permissions, u) THEN "Forbidden"
    ELSE "Allow"

\* the guard with the commented-out feature check switched on, against a
\* user record that carries no features
SecuredFeaturesEnforced(authenticated, permissions, features, loading, u) ==
    IF loading THEN "Pending"
    ELSE IF authenticated = "true" /\ ~isAuthenticated(u) THEN "RedirectToLogin"
    ELSE IF authenticated = "false" /\ isAuthenticated(u) /\ ~loading THEN "RedirectToHome"
    ELSE IF SecuredPermissionDenied(permissions, u) THEN "Forbidden"
    ELSE IF features # Null /\ features.items # {} THEN "Forbidden"
    ELSE "Allow"

Secured(authenticated, permissions, features, loading, u) ==
    IF loading THEN "Pending"
    ELSE IF authenticated = "true" /\ ~isAuthenticated(u) THEN "RedirectToLogin"
    ELSE IF authenticated = "false" /\ isAuthenticated(u) /\ ~loading THEN "RedirectToHome"
    ELSE IF SecuredPermissionDenied(permissions, u) THEN "Forbidden"
    ELSE "Allow"

Redirects == {"RedirectToLogin", "RedirectToHome"}

\* <Navigate to={...} replace />
NavigateTarget(d) == IF d = "RedirectToLogin" THEN LoginPath ELSE HomePath

-----------------------------------------------------------------------------
(* HTTP client *)

Failures == {"e401", "e500", "neterr"}
Outcomes == {"ok"} \cup Failures

Req(kind, arg) == [kind |-> kind, arg |-> arg]
MeReq == Req("me", Null)
SignInReq == Req("signIn", Null)
SignOutReq == Req("signOut", Null)

\* every request the process can have in flight; a refresh carries the id
\* its URL was built from, a profile update the user its handler closed over
Requests ==
    {MeReq, SignInReq, SignOutReq}
        \cup {Req("refresh", i) : i \in UserIds}
        \cup {Req("updateProfile", u) : u \in Identities}

CanCall == calls < MaxCalls

\* apiClient.get / apiClient.post: the request leaves
Send(r) ==
    /\ CanCall
    /\ inflight' = [inflight EXCEPT ![r] = @ + 1]
    /\ calls' = calls + 1

\* the response of r arrives and its awaiting handler resumes
Receive(r) ==
    /\ inflight[r] > 0
    /\ inflight' = [inflight EXCEPT ![r] = @ - 1]
    /\ UNCHANGED calls

\* an interceptor that leaves for the login page on every failure
InterceptorEveryError(o) == forcedNav' = (forcedNav \/ o # "ok")

\* the response interceptor's error branch
Interceptor(o) == forcedNav' = (forcedNav \/ o = "e401")

Event(op, o, data) == [op |-> op, outcome |-> o, data |-> data]

-----------------------------------------------------------------------------
(* React *)

\* the re-render that follows every state update
Rerender ==
    /\ props' = SecuredProps(path')
    /\ decision' = Secured(props'.authenticated, props'.permissions,
                           props'.features, isLoading', user')

\* a change of the session starts a new chain of redirects
SessionMoved == hops' = IF user' # user \/ isLoading' # isLoading THEN 0 ELSE hops

-----------------------------------------------------------------------------
(* Session Manager *)

\* an effect without a dependency array: it runs after every commit
MountEffectEveryCommit == TRUE

\* useEffect(..., []) runs after the first commit only
MountEffectDue == ~mounted

\* the 200 body stored without looking at it
MeSuccessUserUnchecked(data) == data

\* a verifySession whose setUser is not part of the commit that clears
\* the loading flag
MeSuccessUserLater(data) == Null

\* `response.data && response.data.id`
MeSuccessUser(data) ==
    IF data # Null /\ "id" \in DOMAIN data THEN data ELSE Null

\* verifySession without its `if (user)` guard
verifySessionUnguarded(u, byMount) ==
    /\ Send(MeReq)
    /\ mountMe' = mountMe + (IF byMount THEN 1 ELSE 0)
    /\ UNCHANGED isLoading

\* a verifySession that shows the spinner again while it asks
verifySessionSetsLoading(u, byMount) ==
    IF u # Null
    THEN /\ isLoading' = FALSE
         /\ UNCHANGED << inflight, calls, mountMe >>
    ELSE /\ Send(MeReq)
         /\ mountMe' = mountMe + (IF byMount THEN 1 ELSE 0)
         /\ isLoading' = TRUE

\* the body of verifySession up to its await, with `u` the user of the
\* render whose closure is called
verifySession(u, byMount) ==
    IF u # Null
    THEN /\ isLoading' = FALSE
         /\ UNCHANGED << inflight, calls, mountMe >>
    ELSE /\ Send(MeReq)
         /\ mountMe' = mountMe + (IF byMount THEN 1 ELSE 0)
         /\ UNCHANGED isLoading

MountEffect ==
    /\ MountEffectDue
    /\ mounted' = TRUE
    /\ IF path = LoginPath
       THEN /\ isLoading' = FALSE
            /\ UNCHANGED << inflight, calls, mountMe >>
       ELSE verifySession(user, TRUE)
    /\ last' = Event("mountEffect", "none", Null)
    /\ UNCHANGED << user, startedOnLogin, path, forcedNav, meReturned >>
    /\ SessionMoved
    /\ Rerender
    /\ UNCHANGED << tenantVars, sidebarVars >>

\* verifySession called through the context value
VerifySession ==
    /\ mounted
    /\ verifySession(user, FALSE)
    /\ last' = Event("verifySession", IF user # Null THEN "skipped" ELSE "sent", Null)
    /\ UNCHANGED << user, mounted, startedOnLogin, path, forcedNav, meReturned >>
    /\ SessionMoved
    /\ Rerender
    /\ UNCHANGED << tenantVars, sidebarVars >>

\* setIsLoading(false) moved from the finally block into the try block
VerifyFinallyInTry(o, loading) == IF o = "ok" THEN FALSE ELSE loading

\* what verifySession's finally block leaves in `isLoading`
VerifyFinally(o, loading) == FALSE

\* verifySession after its await: try / catch / finally
VerifyDone(o, data) ==
    /\ Receive(MeReq)
    /\ user' = IF o = "ok" THEN MeSuccessUser(data) ELSE Null
    /\ isLoading' = VerifyFinally(o, isLoading)
    /\ Interceptor(o)
    /\ last' = Event("verifyDone", o, data)
    /\ meReturned' = meReturned + 1
    /\ UNCHANGED << mounted, startedOnLogin, path, mountMe >>
    /\ SessionMoved
    /\ Rerender
    /\ UNCHANGED << tenantVars, sidebarVars >>

\* login up to its await; the LoginPage is the only caller, and it is on
\* screen when <Secured> renders the login route's children
Login ==
    /\ mounted
    /\ routes(path).element = "LoginPage"
    /\ decision = "Allow"
    /\ Send(SignInReq)
    /\ last' = Event("login", "sent", Null)
    /\ UNCHANGED << user, isLoading, mounted, startedOnLogin, path, mountMe, forcedNav, meReturned >>
    /\ SessionMoved
    /\ Rerender
    /\ UNCHANGED << tenantVars, sidebarVars >>

\* login that leaves `user` alone and counts on a later who-am-I
LoginLeavesUser(userData, u) == u

\* `const { user: userData } = response.data; setUser(userData)`
LoginSetUser(userData, u) == userData

\* a text that is absent (undefined) or empty: both are falsy for `||`
NoText == ""

\* what login's catch block can read from a failed sign-in: the response
\* body's `message` and `error` fields and the AxiosError's own message
\* (axios always sets the latter); a network error carries no response
LoginFailure(message, error, text) ==
    [message |-> message, error |-> error, text |-> text]

LoginFailures(o) ==
    IF o = "neterr"
    THEN {LoginFailure(NoText, NoText, "Network Error")}
    ELSE {LoginFailure(m, e, "Request failed with status code") :
              m \in {NoText, "Wrong password"}, e \in {NoText, "Unauthorized"}}

\* the two response fields read in the other order
loginErrorMessageErrorFirst(f) ==
    IF f.error # NoText THEN f.error
    ELSE IF f.message # NoText THEN f.message
    ELSE f.text

\* `error.response?.data?.message || error.response?.data?.error ||
\* error.message`, then `errorMessage || 'Invalid email or password'`
loginErrorMessage(f) ==
    LET errorMessage ==
            IF f.message # NoText THEN f.message
            ELSE IF f.error # NoText THEN f.error
            ELSE f.text
    IN  IF errorMessage # NoText THEN errorMessage ELSE "Invalid email or password"

\* login after its await: setUser(response.data.user) and return true, or
\* the catch block throws an Error carrying loginErrorMessage; `data` is the
\* returned user on success and the LoginFailure otherwise
LoginDone(o, data) ==
    /\ Receive(SignInReq)
    /\ user' = IF o = "ok" THEN LoginSetUser(data, user) ELSE user
    /\ Interceptor(o)
    /\ last' = Event("loginDone", o,
                     IF o = "ok" THEN data
                     ELSE [response |-> data, thrown |-> loginErrorMessage(data)])
    /\ UNCHANGED << isLoading, mounted, startedOnLogin, path, mountMe, meReturned >>
    /\ SessionMoved
    /\ Rerender
    /\ UNCHANGED << tenantVars, sidebarVars >>

\* setUser(null) moved from the finally block into the try block
LogoutClearsOnSuccess(o, u) == IF o = "ok" THEN Null ELSE u

\* what logout's finally block leaves in `user`
LogoutFinally(o, u) == Null

\* logout up to its await; DashboardLayout hands it to the Sidebar, and the
\* layout renders around <Secured>, whatever <Secured> decides
Logout ==
    /\ mounted
    /\ routes(path).layout = "Dashboard"
    /\ Send(SignOutReq)
    /\ last' = Event("logout", "sent", Null)
    /\ UNCHANGED << user, isLoading, mounted, startedOnLogin, path, mountMe, forcedNav, meReturned >>
    /\ SessionMoved
    /\ Rerender
    /\ UNCHANGED << tenantVars, sidebarVars >>

\* logout after its await: try / catch / finally
LogoutDone(o) ==
    /\ Receive(SignOutReq)
    /\ user' = LogoutFinally(o, user)
    /\ Interceptor(o)
    /\ last' = Event("logoutDone", o, user)
    /\ UNCHANGED << isLoading, mounted, startedOnLogin, path, mountMe, meReturned >>
    /\ SessionMoved
    /\ Rerender
    /\ UNCHANGED << tenantVars, sidebarVars >>

\* refreshUser up to its await, called through the context value
RefreshUser ==
    /\ mounted
    /\ IF user = Null
       THEN UNCHANGED << inflight, calls >>
       ELSE Send(Req("refresh", user.id))
    /\ last' = Event("refreshUser", IF user = Null THEN "skipped" ELSE "sent", Null)
    /\ UNCHANGED << user, isLoading, mounted, startedOnLogin, path, mountMe, forcedNav, meReturned >>
    /\ SessionMoved
    /\ Rerender
    /\ UNCHANGED << tenantVars, sidebarVars >>

\* refreshUser after its await
RefreshDone(i, o, data) ==
    /\ Receive(Req("refresh", i))
    /\ user' = IF o = "ok" THEN data ELSE user
    /\ Interceptor(o)
    /\ last' = Event("refreshDone", o, Null)
    /\ UNCHANGED << isLoading, mounted, startedOnLogin, path, mountMe, meReturned >>
    /\ SessionMoved
    /\ Rerender
    /\ UNCHANGED << tenantVars, sidebarVars >>

\* updateUser(userData)
updateUser(userData) == user' = userData

\* ProfilePage.onSubmit up to its await; the page is on screen when
\* <Secured> renders the profile route's children
ProfileSubmit ==
    /\ mounted
    /\ routes(path).element = "ProfilePage"
    /\ decision = "Allow"
    /\ user # Null
    /\ Send(Req("updateProfile", user))
    /\ last' = Event("profileSubmit", "sent", Null)
    /\ UNCHANGED << user, isLoading, mounted, startedOnLogin, path, mountMe, forcedNav, meReturned >>
    /\ SessionMoved
    /\ Rerender
    /\ UNCHANGED << tenantVars, sidebarVars >>

\* ProfilePage.onSubmit after its await: updateUser({...user, name}) with
\* the user the handler closed over
ProfileDone(u, o) ==
    /\ Receive(Req("updateProfile", u))
    /\ IF o = "ok" THEN updateUser(u) ELSE UNCHANGED user
    /\ Interceptor(o)
    /\ last' = Event("profileDone", o, Null)
    /\ UNCHANGED << isLoading, mounted, startedOnLogin, path, mountMe, meReturned >>
    /\ SessionMoved
    /\ Rerender
    /\ UNCHANGED << tenantVars, sidebarVars >>

-----------------------------------------------------------------------------
(* Navigation *)

\* the effect of a rendered <Navigate to replace />
FollowRedirect ==
    /\ decision \in Redirects
    /\ hops < MaxHops
    /\ path' = NavigateTarget(decision)
    /\ hops' = hops + 1
    /\ last' = Event("navigate", decision, Null)
    /\ UNCHANGED << user, isLoading, mounted, startedOnLogin, inflight, calls,
                    mountMe, forcedNav, meReturned >>
    /\ Rerender
    /\ UNCHANGED << tenantVars, sidebarVars >>

\* a sidebar link or the history is used
UserNavigate(p) ==
    /\ mounted
    /\ p # path
    /\ path' = p
    /\ hops' = 0
    /\ last' = Event("userNavigate", "none", Null)
    /\ UNCHANGED << user, isLoading, mounted, startedOnLogin, inflight, calls,
                    mountMe, forcedNav, meReturned >>
    /\ Rerender
    /\ UNCHANGED << tenantVars, sidebarVars >>

NoRequests == [r \in Requests |-> 0]

\* the state of a process that the browser starts at location p
Started(p) ==
    /\ user = Null
    /\ isLoading = TRUE
    /\ mounted = FALSE
    /\ startedOnLogin = (p = LoginPath)
    /\ path = p
    /\ hops = 0
    /\ props = SecuredProps(p)
    /\ decision = Secured(SecuredProps(p).authenticated, SecuredProps(p).permissions,
                          SecuredProps(p).features, TRUE, Null)
    /\ inflight = NoRequests
    /\ calls = 0
    /\ mountMe = 0
    /\ forcedNav = FALSE
    /\ meReturned = 0

\* window.location.href = '/login' takes effect: the document is replaced
\* and a new process starts on the login path
PageReload ==
    /\ forcedNav
    /\ user' = Null
    /\ isLoading' = TRUE
    /\ mounted' = FALSE
    /\ startedOnLogin' = TRUE
    /\ path' = LoginPath
    /\ hops' = 0
    /\ inflight' = NoRequests
    /\ calls' = 0
    /\ mountMe' = 0
    /\ forcedNav' = FALSE
    /\ meReturned' = 0
    /\ last' = Event("start", "none", Null)
    /\ Rerender
    /\ UNCHANGED << tenantVars, sidebarVars >>

-----------------------------------------------------------------------------
(* The application *)

\* localStorage.getItem answers null: the item is not there
NoItem == ""

\* no rule of the sidebar has been made: the context is the one the
\* Sidebar builds for a user without permissions
SidebarIdle ==
    /\ sidebarRule = Null
    /\ ruleContext = RuleContext(Null, {}, Arr({}))
    /\ verdict = Null

\* CompanyProvider as its useState calls create it
CompanyProviderInit ==
    /\ companies = << >>
    /\ selectedCompany = Null
    /\ companyLoading = TRUE
    /\ tflight = {}
    /\ picked = Null

Init ==
    /\ \E p \in Paths : Started(p)
    /\ last = Event("start", "none", Null)
    /\ CompanyProviderInit
    /\ SidebarIdle
    /\ csid = NoItem
    /\ csidWriter = "none"

Next ==
    \/ MountEffect
    \/ VerifySession
    \/ \E data \in MePayloads : VerifyDone("ok", data)
    \/ \E o \in Failures : VerifyDone(o, Null)
    \/ Login
    \/ \E data \in Identities : LoginDone("ok", data)
    \/ \E o \in Failures : \E f \in LoginFailures(o) : LoginDone(o, f)
    \/ Logout
    \/ \E o \in Outcomes : LogoutDone(o)
    \/ RefreshUser
    \/ \E i \in UserIds : \E data \in {u \in Identities : u.id = i} : RefreshDone(i, "ok", data)
    \/ \E i \in UserIds : \E o \in Failures : RefreshDone(i, o, Null)
    \/ ProfileSubmit
    \/ \E u \in Identities : \E o \in Outcomes : ProfileDone(u, o)
    \/ FollowRedirect
    \/ \E p \in Paths : UserNavigate(p)
    \/ PageReload

Spec == Init /\ [][Next]_vars

\* the responses of the remote calls
VerifyReturns ==
    \/ \E data \in MePayloads : VerifyDone("ok", data)
    \/ \E o \in Failures : VerifyDone(o, Null)

LoginReturns ==
    \/ \E data \in Identities : LoginDone("ok", data)
    \/ \E o \in Failures : \E f \in LoginFailures(o) : LoginDone(o, f)

LogoutReturns == \E o \in Outcomes : LogoutDone(o)

\* React runs the effects of a commit, and every remote call that was
\* issued returns, with success or with a failure
FairSpec ==
    /\ Spec
    /\ WF_vars(MountEffect)
    /\ WF_vars(VerifyReturns)
    /\ WF_vars(LoginReturns)
    /\ WF_vars(LogoutReturns)

-----------------------------------------------------------------------------
(* The Access Guard on its own: <Secured> rendered once under every        *)
(* combination of props and of the context values it reads                 *)

\* permissions a user of the guard's inputs may hold
HeldTokens == {BlogView, BlogCreate, BloggingCreate}
\* permissions a route of the guard's inputs may require
RequiredTokens == {BlogView, BlogCreate, BlogStar}
FeatureNames == {"analytics"}

NullableArrays(S) == {Null} \cup {Arr(T) : T \in SUBSET S}

GuardProps ==
    [authenticated : {"true", "false", "null"},
     permissions : NullableArrays(RequiredTokens),
     features : NullableArrays(FeatureNames)]

GuardUsers == {Null} \cup {User("u1", "owner", P, << >>) : P \in SUBSET HeldTokens}

GuardInit ==
    /\ user \in GuardUsers
    /\ isLoading \in BOOLEAN
    /\ props \in GuardProps
    /\ decision = "NotRendered"
    /\ mounted = TRUE
    /\ startedOnLogin = FALSE
    /\ path = HomePath
    /\ hops = 0
    /\ inflight = NoRequests
    /\ calls = 0
    /\ mountMe = 0
    /\ forcedNav = FALSE
    /\ last = Event("start", "none", Null)
    /\ meReturned = 0
    /\ CompanyProviderInit
    /\ SidebarIdle
    /\ csid = NoItem
    /\ csidWriter = "none"

GuardRender ==
    /\ decision' = Secured(props.authenticated, props.permissions, props.features,
                           isLoading, user)
    /\ UNCHANGED << user, isLoading, mounted, startedOnLogin, path, hops, props,
                    inflight, calls, mountMe, forcedNav, last, meReturned >>
    /\ UNCHANGED << tenantVars, sidebarVars >>

GuardNext == GuardRender

GuardSpec == GuardInit /\ [][GuardNext]_vars

-----------------------------------------------------------------------------
(* The Rule Engine on its own: a rule is made out of the module's          *)
(* constructors and evaluated against a context of the RuleContext type    *)

\* rules one and(...) or or(...) is called with
MaxChildren == 2

\* the features asked for; only the first is ever enabled
RuleFeatures == {"analytics", "reports"}

\* { user, permissions, features? }: the rules made here do not read user
RuleContexts ==
    { RuleContext(Null, P, F) : P \in SUBSET HeldTokens, F \in NullableArrays(FeatureNames) }

\* the rules without children
LeafRules ==
    { hasPermissionRule(T) : T \in RequiredTokens } \cup
    { hasFeatureRule(f) : f \in RuleFeatures }

\* the argument lists of and(...) and or(...) over the rules of S
ChildLists(S) == UNION { [1..n -> S] : n \in 0..MaxChildren }

\* and/or over rules without children
FlatRules == { and(l) : l \in ChildLists(LeafRules) } \cup { or(l) : l \in ChildLists(LeafRules) }

\* and/or of a composite followed by a rule without children
NestedRules ==
    { and(<< c, r >>) : c \in FlatRules, r \in LeafRules } \cup
    { or(<< c, r >>) : c \in FlatRules, r \in LeafRules }

Rules == LeafRules \cup FlatRules \cup NestedRules

ruleFixed ==
    << user, isLoading, mounted, startedOnLogin, path, hops, props, decision,
       inflight, calls, mountMe, forcedNav, meReturned >>

\* a module of the application calls a constructor of the Rule Engine
Construct(rule) ==
    /\ sidebarRule = Null
    /\ sidebarRule' = rule
    /\ last' = Event("construct", "none", Null)
    /\ UNCHANGED << ruleContext, verdict >>
    /\ UNCHANGED ruleFixed
    /\ UNCHANGED tenantVars

\* rule.evaluate(context)
Evaluate ==
    /\ sidebarRule # Null
    /\ verdict = Null
    /\ verdict' = evaluate(sidebarRule, ruleContext)
    /\ last' = Event("evaluate", "none", Null)
    /\ UNCHANGED << sidebarRule, ruleContext >>
    /\ UNCHANGED ruleFixed
    /\ UNCHANGED tenantVars

RuleInit ==
    /\ user = Null
    /\ isLoading = FALSE
    /\ mounted = TRUE
    /\ startedOnLogin = FALSE
    /\ path = HomePath
    /\ hops = 0
    /\ props = SecuredProps(HomePath)
    /\ decision = "NotRendered"
    /\ inflight = NoRequests
    /\ calls = 0
    /\ mountMe = 0
    /\ forcedNav = FALSE
    /\ meReturned = 0
    /\ last = Event("start", "none", Null)
    /\ companies = << >>
    /\ selectedCompany = Null
    /\ companyLoading = TRUE
    /\ tflight = {}
    /\ picked = Null
    /\ csid = NoItem
    /\ csidWriter = "none"
    /\ sidebarRule = Null
    /\ ruleContext \in RuleContexts
    /\ verdict = Null

RuleNext ==
    \/ \E rule \in Rules : Construct(rule)
    \/ Evaluate

RuleSpec == RuleInit /\ [][RuleNext]_vars

-----------------------------------------------------------------------------
(* The Sidebar: the links it shows to a signed-in user, and what <Secured>  *)
(* renders when one of them is followed                                    *)

UserRead == << "u","s","e","r",".","r","e","a","d" >>
AccountRead == << "a","c","c","o","u","n","t",".","r","e","a","d" >>
AccountWrite == << "a","c","c","o","u","n","t",".","w","r","i","t","e" >>

\* a link of the sidebar: its href, its rule, and the rule of the group it
\* is a child of (Null for a link of the top level)
SidebarItem(href, rule, group) == [href |-> href, rule |-> rule, group |-> group]

\* the links of items.tsx: the items without children and the children of
\* the collapsible groups
navItems ==
    { SidebarItem("/settings/profile", isAuthenticatedRule, Null),
      SidebarItem("/users/list", hasRoleRule("owner"), Null),
      SidebarItem("/companies", hasRoleRule("owner"), Null),
      SidebarItem(HomePath, hasPermissionRule(CompanyView), Null),
      SidebarItem("/posts/list", hasPermissionRule(BlogView), hasPermissionRule(BlogView)),
      SidebarItem("/categories", hasPermissionRule(BlogView), hasPermissionRule(BlogView)),
      SidebarItem("/tags", hasPermissionRule(BlogView), hasPermissionRule(BlogView)),
      SidebarItem("/users/list", hasPermissionRule(UserRead),
                  and(<< hasPermissionRule(UserRead) >>)),
      SidebarItem("/users/create", hasPermissionRule(UserCreate),
                  and(<< hasPermissionRule(UserRead) >>)),
      SidebarItem("/companies/overview", hasPermissionRule(CompanyView),
                  hasPermissionRule(CompanyView)),
      SidebarItem("/companies/members", hasPermissionRule(CompanyView),
                  hasPermissionRule(CompanyView)),
      SidebarItem("/settings/account",
                  or(<< hasPermissionRule(AccountRead), hasPermissionRule(AccountWrite) >>),
                  Null) }

\* Sidebar.isVisible for a rule: the context is made out of the user, with
\* no features
isVisible(rule, u) ==
    IF rule = Null THEN TRUE
    ELSE IF u = Null THEN FALSE
    ELSE evaluate(rule, RuleContext(u, u.permissions, Arr({}))).value

\* the signed-in users the sidebar is rendered for
NavUsers ==
    { User("u1", role, P, << >>) :
          role \in {"owner", "master", "team_member"},
          P \in SUBSET {CompanyView, BlogView, UserRead, UserCreate, AccountRead,
                        AccountWrite} }

\* renderItem shows the link (its group and itself are visible) and the
\* user follows it: the router matches the href and <Secured> renders
SidebarClick(item) ==
    /\ isVisible(item.group, user)
    /\ isVisible(item.rule, user)
    /\ sidebarRule' = item.rule
    /\ ruleContext' = RuleContext(user, user.permissions, Arr({}))
    /\ verdict' = evaluate(item.rule, ruleContext')
    /\ path' = item.href
    /\ props' = SecuredProps(item.href)
    /\ decision' = Secured(SecuredProps(item.href).authenticated,
                           SecuredProps(item.href).permissions,
                           SecuredProps(item.href).features, isLoading, user)
    /\ last' = Event("sidebarClick", "none", Null)
    /\ UNCHANGED << user, isLoading, mounted, startedOnLogin, hops, inflight, calls,
                    mountMe, forcedNav, meReturned >>
    /\ UNCHANGED tenantVars

NavInit ==
    /\ user \in NavUsers
    /\ isLoading = FALSE
    /\ mounted = TRUE
    /\ startedOnLogin = FALSE
    /\ path = HomePath
    /\ hops = 0
    /\ props = SecuredProps(HomePath)
    /\ decision = Secured(props.authenticated, props.permissions, props.features,
                          isLoading, user)
    /\ inflight = NoRequests
    /\ calls = 0
    /\ mountMe = 0
    /\ forcedNav = FALSE
    /\ meReturned = 0
    /\ last = Event("start", "none", Null)
    /\ CompanyProviderInit
    /\ SidebarIdle
    /\ csid = NoItem
    /\ csidWriter = "none"

NavNext == \E item \in navItems : SidebarClick(item)

NavSpec == NavInit /\ [][NavNext]_vars

-----------------------------------------------------------------------------
(* Tenant Selector (CompanyProvider)                                       *)
(*                                                                         *)
(* A Company is reduced to its id and its created_at, the latter as the    *)
(* number `new Date(created_at).getTime()` gives.  user.companies is the   *)
(* sequence of the ids of its entries.                                     *)

\* company fetches one process may issue before the model stops issuing more
MaxFetches == 2
\* companies in one answer of GET /companies
MaxListed == 2

TenantIds == {"a", "b", "c"}
\* creation dates: no two companies of an answer were created at the same time
Timestamps == 1..MaxListed

Company(id, created_at) == [id |-> id, created_at |-> created_at]

\* the minimal company built from user.companies[0]; its created_at is ''
\* and it is never sorted
fallbackCompany(userCompany) == Company(userCompany, 0)

\* Array.prototype.find on the id
FindById(list, id) ==
    IF \E i \in 1..Len(list) : list[i].id = id
    THEN list[CHOOSE i \in 1..Len(list) :
                  /\ list[i].id = id
                  /\ \A j \in 1..(i - 1) : list[j].id # id]
    ELSE Null

\* the first element of a copy of the list sorted by created_at; the sort
\* is stable, so that among equal dates the first listed comes first
sortedFirst(list) ==
    list[CHOOSE i \in 1..Len(list) :
             \A j \in 1..Len(list) :
                 \/ list[i].created_at < list[j].created_at
                 \/ list[i].created_at = list[j].created_at /\ i <= j]

\* the identities the Tenant Selector is driven with: a master with one
\* membership and with none, and a team member
TenantUsers ==
    { User("u1", "master", {}, << "b" >>),
      User("u1", "master", {}, << >>),
      User("u2", "team_member", {}, << "a" >>) }

\* the answers GET /companies may give: companies with distinct ids, in any
\* order, created in any order
ListResponses ==
    UNION { { l \in [1..n -> [id : TenantIds, created_at : 1..n]] :
                \A i, j \in 1..n :
                    (l[i].id = l[j].id \/ l[i].created_at = l[j].created_at) => i = j } :
            n \in 0..MaxListed }

\* `user.companies && user.companies.length > 0 ? user.companies[0].id : null`
defaultCompanyId(u) == IF Len(u.companies) > 0 THEN u.companies[1] ELSE NoItem

\* a company fetch in flight: the n-th of its process, with the user and
\* the selectedCompany of the render whose fetchCompanies was called
Fetch(n, kind, u, sel) == [n |-> n, kind |-> kind, user |-> u, selectedCompany |-> sel]

\* a fetchCompanies that asks for the list whatever the role is
fetchKindList(u) == "list"

\* `if (user.role === 'team_member')` companyService.get(defaultCompanyId),
\* else companyService.list()
fetchKind(u) == IF u.role = "team_member" THEN "get" ELSE "list"

\* companyService.get / companyService.list is called
SendFetch(u, sel) ==
    /\ calls < MaxFetches
    /\ tflight' = tflight \cup {Fetch(calls, fetchKind(u), u, sel)}
    /\ calls' = calls + 1

\* the answer to the fetch r arrives and fetchCompanies resumes
ReceiveFetch(r, kind) ==
    /\ r \in tflight
    /\ r.kind = kind
    /\ tflight' = tflight \ {r}
    /\ UNCHANGED calls

\* fetchCompanies up to its await, called from a render with user u and
\* selectedCompany sel
fetchCompanies(u, sel) ==
    IF u = Null
    THEN /\ companyLoading' = FALSE
         /\ UNCHANGED << companies, selectedCompany, csid, csidWriter, tflight, calls >>
    ELSE IF defaultCompanyId(u) = NoItem
    THEN /\ companies' = << >>
         /\ selectedCompany' = Null
         /\ companyLoading' = FALSE
         /\ UNCHANGED << csid, csidWriter, tflight, calls >>
    ELSE /\ SendFetch(u, sel)
         /\ companyLoading' = TRUE
         /\ UNCHANGED << companies, selectedCompany, csid, csidWriter >>

\* the effect without its `if (authLoading) return`
IdentityEffectUnguarded(u, authLoading, sel) ==
    IF u = Null
    THEN /\ csid' = NoItem
         /\ csidWriter' = "effect"
         /\ companies' = << >>
         /\ selectedCompany' = Null
         /\ companyLoading' = FALSE
         /\ UNCHANGED << tflight, calls >>
    ELSE fetchCompanies(u, sel)

\* the effect whose logged-out branch leaves the storage alone
IdentityEffectKeepsItem(u, authLoading, sel) ==
    IF authLoading
    THEN UNCHANGED << companies, selectedCompany, companyLoading, csid, csidWriter,
                      tflight, calls >>
    ELSE IF u = Null
    THEN /\ companies' = << >>
         /\ selectedCompany' = Null
         /\ companyLoading' = FALSE
         /\ UNCHANGED << csid, csidWriter, tflight, calls >>
    ELSE fetchCompanies(u, sel)

\* the effect on [user, authLoading], run after a commit whose render saw
\* user u, isLoading authLoading and selectedCompany sel
IdentityEffect(u, authLoading, sel) ==
    IF authLoading
    THEN UNCHANGED << companies, selectedCompany, companyLoading, csid, csidWriter,
                      tflight, calls >>
    ELSE IF u = Null
    THEN /\ csid' = NoItem
         /\ csidWriter' = "effect"
         /\ companies' = << >>
         /\ selectedCompany' = Null
         /\ companyLoading' = FALSE
         /\ UNCHANGED << tflight, calls >>
    ELSE fetchCompanies(u, sel)

\* a refresh that never keeps the current selection
stillExistsNever(fetched, sel) == FALSE

\* `if (selectedCompany) { const stillExists = fetchedCompanies.find(...)`
stillExists(fetched, sel) == sel # Null /\ FindById(fetched, sel.id) # Null

\* `savedCompanyId && savedCompanyId.trim() !== ''`, then find; the ids the
\* provider writes carry no white space, so that trim changes nothing
savedCompany(fetched, savedCompanyId) ==
    IF savedCompanyId # NoItem THEN FindById(fetched, savedCompanyId) ELSE Null

\* an item that names no fetched company and is left in the storage
staleItemKept(savedCompanyId) == savedCompanyId

\* localStorage.removeItem for an item that names no fetched company
staleItemRemoved(savedCompanyId) == NoItem

\* a fallback that looks at the creation dates only
defaultCompanyByDate(fetched, id) ==
    IF Len(fetched) > 0 THEN sortedFirst(fetched) ELSE Null

\* the company of user.companies[0] if it was fetched, else the earliest
\* created of the fetched ones
defaultCompany(fetched, id) ==
    IF FindById(fetched, id) # Null THEN FindById(fetched, id)
    ELSE IF Len(fetched) > 0 THEN sortedFirst(fetched)
    ELSE Null

\* what the master/owner branch of fetchCompanies does after its await to
\* selectedCompany and to the storage: sel and u are those of its closure,
\* savedCompanyId is the item it reads, current is the state it may leave
Resolution(fetched, sel, savedCompanyId, u, current) ==
    IF stillExists(fetched, sel)
    THEN [selectedCompany |-> current, csid |-> sel.id, wrote |-> TRUE]
    ELSE IF savedCompany(fetched, savedCompanyId) # Null
    THEN [selectedCompany |-> savedCompany(fetched, savedCompanyId),
          csid |-> savedCompany(fetched, savedCompanyId).id, wrote |-> TRUE]
    ELSE IF defaultCompany(fetched, defaultCompanyId(u)) # Null
    THEN [selectedCompany |-> defaultCompany(fetched, defaultCompanyId(u)),
          csid |-> defaultCompany(fetched, defaultCompanyId(u)).id, wrote |-> TRUE]
    ELSE [selectedCompany |-> current,
          csid |-> IF savedCompanyId # NoItem THEN staleItemRemoved(savedCompanyId)
                   ELSE savedCompanyId,
          wrote |-> savedCompanyId # NoItem]

\* what the Tenant Selector's actions leave alone
tenantFixed ==
    << startedOnLogin, path, hops, props, decision, inflight, mountMe, forcedNav,
       meReturned, sidebarRule, ruleContext, verdict >>

\* the catch blocks of fetchCompanies do not look at the error
Caught(o) == IF o = "ok" THEN "ok" ELSE "failed"

\* what a handler saw when it resumed: the selectedCompany of its closure,
\* the first membership of the user of its closure, and the stored id
Resumed(r) ==
    [selectedCompany |-> r.selectedCompany,
     membership |-> defaultCompanyId(r.user),
     saved |-> csid]

\* setSelectedCompany(company) is called: the call is remembered with the
\* fetches that are in flight
Picked(company) ==
    picked' = IF company = Null \/ tflight = {} THEN Null
              ELSE [id |-> company.id, during |-> {r.n : r \in tflight}]

\* the fetch r has been answered
PickedAfter(r) ==
    picked' = IF picked = Null \/ picked.during \ {r.n} = {} THEN Null
              ELSE [picked EXCEPT !.during = @ \ {r.n}]

\* the master/owner branch of fetchCompanies after its await
ListDone(r, o, fetched) ==
    /\ ReceiveFetch(r, "list")
    /\ IF o = "ok"
       THEN LET res == Resolution(fetched, r.selectedCompany, csid, r.user, selectedCompany)
            IN  /\ companies' = fetched
                /\ selectedCompany' = res.selectedCompany
                /\ csid' = res.csid
                /\ csidWriter' = IF res.wrote THEN "fetch" ELSE csidWriter
       ELSE /\ companies' = << fallbackCompany(r.user.companies[1]) >>
            /\ selectedCompany' = fallbackCompany(r.user.companies[1])
            /\ UNCHANGED << csid, csidWriter >>
    /\ companyLoading' = FALSE
    /\ last' = Event("listDone", Caught(o), Resumed(r))
    /\ PickedAfter(r)
    /\ UNCHANGED << user, isLoading, mounted >>
    /\ UNCHANGED tenantFixed

\* the team_member branch of fetchCompanies after its await
GetDone(r, o, companyDetails) ==
    /\ ReceiveFetch(r, "get")
    /\ LET c == IF o = "ok" THEN companyDetails
                ELSE fallbackCompany(r.user.companies[1])
       IN  /\ companies' = << c >>
           /\ selectedCompany' = c
           /\ csid' = c.id
    /\ csidWriter' = "fetch"
    /\ companyLoading' = FALSE
    /\ last' = Event("getDone", Caught(o), Resumed(r))
    /\ PickedAfter(r)
    /\ UNCHANGED << user, isLoading, mounted >>
    /\ UNCHANGED tenantFixed

\* setSelectedCompany(company)
setSelectedCompany(company) ==
    /\ selectedCompany' = company
    /\ csid' = IF company # Null THEN company.id ELSE NoItem
    /\ csidWriter' = "setSelectedCompany"

\* a setSelectedCompany that writes the storage before it sets the state
setSelectedCompanyCallsWriteFirst(company) ==
    << IF company # Null THEN [call |-> "setItem", arg |-> company.id]
       ELSE [call |-> "removeItem", arg |-> NoItem],
       [call |-> "setSelectedCompanyState", arg |-> company] >>

\* the calls setSelectedCompany(company) makes, in the order of its
\* statements
setSelectedCompanyCalls(company) ==
    << [call |-> "setSelectedCompanyState", arg |-> company],
       IF company # Null THEN [call |-> "setItem", arg |-> company.id]
       ELSE [call |-> "removeItem", arg |-> NoItem] >>

\* a consumer of the context calls setSelectedCompany with a company it
\* holds or with null
SetActive(company) ==
    /\ mounted
    /\ setSelectedCompany(company)
    /\ last' = Event("setSelectedCompany", "none", setSelectedCompanyCalls(company))
    /\ Picked(company)
    /\ UNCHANGED << user, isLoading, mounted, companies, companyLoading, tflight,
                    calls >>
    /\ UNCHANGED tenantFixed

\* the NavBar's dropdown, shown to masters and owners with more than one
\* company, calls setSelectedCompany with a company of the list
CompanySelect(i) ==
    /\ mounted
    /\ user # Null
    /\ user.role \in {"master", "owner"}
    /\ Len(companies) > 1
    /\ i \in 1..Len(companies)
    /\ setSelectedCompany(companies[i])
    /\ last' = Event("setSelectedCompany", "none", Null)
    /\ Picked(companies[i])
    /\ UNCHANGED << user, isLoading, mounted, companies, companyLoading, tflight,
                    calls >>
    /\ UNCHANGED tenantFixed

\* refreshCompanies, which the NavBar calls for a master after a company
\* was created and the DashboardPage after the selected one was updated
RefreshCompanies ==
    /\ mounted
    /\ user # Null
    /\ user.role = "master" \/ selectedCompany # Null
    /\ fetchCompanies(user, selectedCompany)
    /\ last' = Event("refreshCompanies", "none", Null)
    /\ UNCHANGED picked
    /\ UNCHANGED << user, isLoading, mounted >>
    /\ UNCHANGED tenantFixed

\* CompanyProvider's first commit runs its effect
CompanyMount ==
    /\ ~mounted
    /\ mounted' = TRUE
    /\ IdentityEffect(user, isLoading, selectedCompany)
    /\ last' = Event("companyMount", "none", Null)
    /\ picked' = Null
    /\ UNCHANGED << user, isLoading >>
    /\ UNCHANGED tenantFixed

\* AuthProvider leaves its initial loading state: the mount effect on the
\* login path (u is null) or verifySession's setUser and setIsLoading(false);
\* the commit runs CompanyProvider's effect
SessionSettles(u) ==
    /\ mounted
    /\ isLoading
    /\ isLoading' = FALSE
    /\ user' = u
    /\ IdentityEffect(u, FALSE, selectedCompany)
    /\ last' = Event("sessionSettles", "none", Null)
    /\ picked' = Null
    /\ UNCHANGED mounted
    /\ UNCHANGED tenantFixed

\* a setUser of login, logout, refreshUser or updateUser that changes the
\* value of `user`; the commit runs CompanyProvider's effect
SessionUser(u) ==
    /\ mounted
    /\ ~isLoading
    /\ u # Null \/ user # Null
    /\ user' = u
    /\ IdentityEffect(u, isLoading, selectedCompany)
    /\ last' = Event("sessionUser", "none", Null)
    /\ picked' = Null
    /\ UNCHANGED << isLoading, mounted >>
    /\ UNCHANGED tenantFixed

\* the document is loaded anew: the providers start over and the storage stays
TenantReload ==
    /\ mounted
    /\ user' = Null
    /\ isLoading' = TRUE
    /\ mounted' = FALSE
    /\ calls' = 0
    /\ companies' = << >>
    /\ selectedCompany' = Null
    /\ companyLoading' = TRUE
    /\ tflight' = {}
    /\ picked' = Null
    /\ last' = Event("start", "none", Null)
    /\ UNCHANGED << csid, csidWriter >>
    /\ UNCHANGED tenantFixed

TenantInit ==
    /\ user = Null
    /\ isLoading = TRUE
    /\ mounted = FALSE
    /\ startedOnLogin = FALSE
    /\ path = HomePath
    /\ hops = 0
    /\ props = SecuredProps(HomePath)
    /\ decision = "NotRendered"
    /\ inflight = NoRequests
    /\ calls = 0
    /\ mountMe = 0
    /\ forcedNav = FALSE
    /\ meReturned = 0
    /\ last = Event("start", "none", Null)
    /\ CompanyProviderInit
    /\ SidebarIdle
    /\ csid = NoItem
    /\ csidWriter = "none"

TenantNext ==
    \/ CompanyMount
    \/ \E u \in TenantUsers \cup {Null} : SessionSettles(u)
    \/ \E u \in TenantUsers \cup {Null} : SessionUser(u)
    \/ \E i \in 1..MaxListed : CompanySelect(i)
    \/ RefreshCompanies
    \/ \E r \in tflight : \E fetched \in ListResponses : ListDone(r, "ok", fetched)
    \/ \E r \in tflight : \E o \in Failures : ListDone(r, o, << >>)
    \/ \E r \in tflight : \E t \in Timestamps :
           GetDone(r, "ok", Company(defaultCompanyId(r.user), t))
    \/ \E r \in tflight : \E o \in Failures : GetDone(r, o, Null)
    \/ TenantReload

TenantSpec == TenantInit /\ [][TenantNext]_vars

\* the Tenant Selector with a consumer that calls setSelectedCompany with
\* any argument of its type, `Company | null`
SetActiveNext ==
    \/ TenantNext
    \/ \E i \in 1..MaxListed : i <= Len(companies) /\ SetActive(companies[i])
    \/ SetActive(Null)

SetActiveSpec == TenantInit /\ [][SetActiveNext]_vars

\* The Tenant Selector of a master between refreshes: the first run has
\* fetched a list of more than one company and selected one of them, and
\* from then on the NavBar's dropdown and refreshCompanies are used.  The
\* fetches are counted from the end of the first run.
RefreshInit ==
    /\ user = User("u1", "master", {}, << "b" >>)
    /\ isLoading = FALSE
    /\ mounted = TRUE
    /\ startedOnLogin = FALSE
    /\ path = HomePath
    /\ hops = 0
    /\ props = SecuredProps(HomePath)
    /\ decision = "NotRendered"
    /\ inflight = NoRequests
    /\ calls = 0
    /\ mountMe = 0
    /\ forcedNav = FALSE
    /\ meReturned = 0
    /\ SidebarIdle
    /\ companies \in {l \in ListResponses : Len(l) > 1}
    /\ selectedCompany = Resolution(companies, Null, NoItem, user, Null).selectedCompany
    /\ csid = selectedCompany.id
    /\ csidWriter = "fetch"
    /\ companyLoading = FALSE
    /\ tflight = {}
    /\ picked = Null
    /\ last = Event("listDone", "ok",
                    [selectedCompany |-> Null, membership |-> "b", saved |-> NoItem])

RefreshNext ==
    \/ RefreshCompanies
    \/ \E i \in 1..MaxListed : CompanySelect(i)
    \/ \E r \in tflight : \E fetched \in ListResponses : ListDone(r, "ok", fetched)
    \/ \E r \in tflight : \E o \in Failures : ListDone(r, o, << >>)

RefreshSpec == RefreshInit /\ [][RefreshNext]_vars

\* the spec's SessionState, read off the two context values
SessionState ==
    IF isLoading THEN "Verifying"
    ELSE IF user # Null THEN "Authenticated" ELSE "Anonymous"

Rendered == decision # "NotRendered"

-----------------------------------------------------------------------------
(* Access Guard properties, under GuardSpec *)

\* C1: whatever the route requires and whatever the user holds, while
\* isLoading is true the guard renders the loader: its decision is Pending,
\* never a redirect, Forbidden or Allow.
C1_PendingWhileLoading ==
    (Rendered /\ isLoading) => decision = "Pending"

C1_Witness ==
    /\ Rendered
    /\ isLoading
    /\ props.authenticated = "true"
    /\ user = Null
    /\ decision = "Pending"

\* C3: once isLoading is false, a route that requires authentication sends a
\* visitor without a user to the login route, and a route that requires no
\* authentication sends a signed-in user home, whatever permissions and
\* features are required or held.
C3_AuthenticationRedirects ==
    (Rendered /\ ~isLoading) =>
        /\ (props.authenticated = "true" /\ user = Null) => decision = "RedirectToLogin"
        /\ (props.authenticated = "false" /\ user # Null) => decision = "RedirectToHome"

C3_Witness ==
    /\ ~isLoading
    /\ props.authenticated = "false"
    /\ props.permissions = Arr({BlogCreate})
    /\ user # Null
    /\ user.permissions = {BlogView}
    /\ decision = "RedirectToHome"

RequiredOf(p) == IF p.permissions = Null THEN {} ELSE p.permissions.items
HeldBy(u) == IF u = Null THEN {} ELSE u.permissions

\* C4: for a settled session that the authentication requirement does not
\* redirect, the decision is Forbidden when permissions are required and
\* none of them is held, and Allow otherwise.
C4_PermissionStep ==
    (Rendered /\ ~isLoading /\ decision \notin Redirects) =>
        IF RequiredOf(props) # {} /\ RequiredOf(props) \cap HeldBy(user) = {}
        THEN decision = "Forbidden"
        ELSE decision = "Allow"

\* C5: for a signed-in user the guard lets a non-empty required set R pass
\* exactly when or(hasPermission(r) : r in R) is true of the held
\* permissions, wildcard tokens included.
C5_SameMatchingAsRuleEngine ==
    (Rendered /\ ~isLoading /\ decision \notin Redirects /\ user # Null
        /\ RequiredOf(props) # {}) =>
        ((decision = "Allow") <=> orHasPermission(RequiredOf(props), user.permissions))

\* C6: the decision does not depend on the features prop: absent, empty or
\* naming a feature the user lacks, the guard decides the same, so a feature
\* requirement never blocks what would otherwise be allowed.
C6_FeaturesAdvisory ==
    Rendered =>
        \A f \in NullableArrays(FeatureNames) :
            Secured(props.authenticated, props.permissions, f, isLoading, user) = decision

C6_Witness ==
    /\ props.features = Arr({"analytics"})
    /\ user # Null
    /\ decision = "Allow"

-----------------------------------------------------------------------------
(* Session Manager and navigation properties, under Spec *)

\* the guard's decision at location p for the session as it is
DecisionAt(p) ==
    Secured(SecuredProps(p).authenticated, SecuredProps(p).permissions,
            SecuredProps(p).features, isLoading, user)

\* C2: with the session settled and held fixed, a redirect is followed by at
\* most one redirect-free decision: after a <Navigate> the guard of the
\* target route decides Allow or Forbidden, from every configured route and
\* the unmatched one.
C2_NoRedirectLoop ==
    /\ hops <= 1
    /\ hops = 1 => decision \in {"Allow", "Forbidden"}
    /\ ~isLoading =>
          \A p \in AllPaths :
              DecisionAt(p) \in Redirects =>
                  DecisionAt(NavigateTarget(DecisionAt(p))) \in {"Allow", "Forbidden"}

C2_Witness ==
    /\ hops = 1
    /\ path = LoginPath
    /\ last.op = "navigate"
    /\ last.outcome = "RedirectToLogin"
    /\ decision = "Allow"

\* C7: the mount effect issues no who-am-I request in a process started on
\* the login path, which it settles without a user and with isLoading false;
\* it issues exactly one in a process started elsewhere; and nothing that
\* happens later in the process makes it issue another.
C7_InitialVerificationOnce ==
    /\ mountMe <= 1
    /\ mounted => mountMe = (IF startedOnLogin THEN 0 ELSE 1)
    /\ (last.op = "mountEffect" /\ startedOnLogin) =>
          (user = Null /\ ~isLoading /\ calls = 0)
    /\ (last.op = "mountEffect" /\ ~startedOnLogin) =>
          (calls = 1 /\ inflight[MeReq] = 1)

C7_Witness ==
    /\ ~startedOnLogin
    /\ mountMe = 1
    /\ last.op = "loginDone"
    /\ last.outcome = "ok"
    /\ user # Null

\* C8: when GET /auth/me has returned, isLoading is false, and a user is
\* held exactly when the call answered 200 with a body that carries an id, in
\* which case the user is that body; every failure and every body without an
\* id leaves no user.
C8_VerificationFailClosed ==
    last.op = "verifyDone" =>
        /\ ~isLoading
        /\ IF last.outcome = "ok" /\ last.data \in Identities
           THEN user = last.data
           ELSE user = Null

C8_Witness ==
    /\ last.op = "verifyDone"
    /\ last.outcome = "e500"
    /\ user = Null
    /\ ~isLoading

\* C9: a call of verifySession made while a user is held sends nothing,
\* leaves the user as it is and leaves isLoading false.
C9_VerifySkipsWhenUserHeld ==
    [][(last'.op = "verifySession" /\ user # Null) =>
          (calls' = calls /\ inflight' = inflight /\ user' = user /\ isLoading' = FALSE)]_vars

C9_Witness ==
    /\ last.op = "verifySession"
    /\ last.outcome = "skipped"
    /\ user # Null
    /\ ~isLoading

\* C10: when POST /auth/sign-out has returned, with any outcome, no user is
\* held; if one was held until then, the session is Anonymous.
C10_LogoutUnconditional ==
    last.op = "logoutDone" =>
        /\ user = Null
        /\ last.data # Null => SessionState = "Anonymous"

C10_Witness ==
    /\ last.op = "logoutDone"
    /\ last.outcome = "neterr"
    /\ last.data # Null
    /\ user = Null

\* C11: when an authenticated call other than the initial who-am-I (here
\* refreshUser's GET /user/:id) has been answered 401, the Session Manager
\* holds no user: the session is Anonymous by its own state, before and
\* whether or not the forced navigation replaces the document.
C11_AnonymousAfter401 ==
    (last.op = "refreshDone" /\ last.outcome = "e401") => user = Null

\* C12: login sends exactly one request, the sign-in, and no who-am-I; when
\* the sign-in succeeds nothing further is sent and the session is at once
\* Authenticated with exactly the user of the response.
C12_LoginOneCall ==
    [][/\ last'.op = "login" =>
              /\ calls' = calls + 1
              /\ inflight' = [inflight EXCEPT ![SignInReq] = @ + 1]
       /\ (last'.op = "loginDone" /\ last'.outcome = "ok") =>
              /\ calls' = calls
              /\ inflight' = [inflight EXCEPT ![SignInReq] = @ - 1]
              /\ user' = last'.data
              /\ SessionState' = "Authenticated"]_vars

C12_Witness ==
    /\ last.op = "loginDone"
    /\ last.outcome = "ok"
    /\ user = last.data
    /\ calls = 1
    /\ mountMe = 0

\* the message the claim prescribes for a failed sign-in
ClaimedLoginMessage(f) ==
    IF f.message # NoText THEN f.message
    ELSE IF f.error # NoText THEN f.error
    ELSE f.text

\* C13: a failed sign-in throws an error whose message is the response
\* body's message field if it has one, else its error field, else the
\* transport error's text, and leaves user and isLoading as they were.
C13_LoginFailure ==
    [][(last'.op = "loginDone" /\ last'.outcome # "ok") =>
          /\ last'.data.thrown = ClaimedLoginMessage(last'.data.response)
          /\ user' = user
          /\ isLoading' = isLoading]_vars

C13_Witness ==
    /\ last.op = "loginDone"
    /\ last.outcome = "e500"
    /\ last.data.response.message = NoText
    /\ last.data.response.error = "Unauthorized"
    /\ last.data.thrown = "Unauthorized"
    /\ user = Null
    /\ ~isLoading

\* C14 as stated: whenever the session leaves Verifying, on any start path,
\* exactly one who-am-I round trip has completed.
C14_ExactlyOneRoundTrip ==
    [][(isLoading /\ ~isLoading') => meReturned' = 1]_vars

\* C14, amended: when every issued remote call returns, a session that is
\* Verifying eventually settles Authenticated or Anonymous with the guard's
\* decision no longer Pending; it leaves Verifying after no round trip when
\* the process started on the login path and after exactly one who-am-I
\* round trip otherwise.
C14_SettlesAfterOneRoundTrip ==
    /\ isLoading ~> (SessionState \in {"Authenticated", "Anonymous"} /\ decision # "Pending")
    /\ [][(isLoading /\ ~isLoading') =>
             meReturned' = (IF startedOnLogin THEN 0 ELSE 1)]_vars

C14_Witness ==
    /\ ~startedOnLogin
    /\ last.op = "verifyDone"
    /\ last.outcome = "neterr"
    /\ meReturned = 1
    /\ SessionState = "Anonymous"
    /\ decision # "Pending"

\* C15: while the session is Verifying the Tenant Selector does nothing: no
\* company fetch has been issued or is in flight, and no step that leaves
\* the session Verifying changes the stored id, so that the id the process
\* started with is the one in the storage when verification completes.
C15_IdleWhileVerifying ==
    [][(isLoading /\ isLoading') =>
          /\ calls' = 0
          /\ tflight' = {}
          /\ csid' = csid]_vars

C15_Witness ==
    /\ mounted
    /\ isLoading
    /\ last.op = "companyMount"
    /\ csid # NoItem
    /\ calls = 0

\* the session has become settled without a user in this step
BecomesAnonymous ==
    /\ ~isLoading'
    /\ user' = Null
    /\ isLoading \/ user # Null

\* C16: when the session becomes settled without a user, by a logout or by
\* a verification that ended Anonymous, the Tenant Selector's effect has
\* cleared everything: no stored id, no selected company, no companies, and
\* its loading flag false.
C16_ClearedWhenAnonymous ==
    [][BecomesAnonymous =>
          /\ csid' = NoItem
          /\ selectedCompany' = Null
          /\ companies' = << >>
          /\ ~companyLoading']_vars

C16_Witness ==
    /\ last.op = "sessionUser"
    /\ user = Null
    /\ ~isLoading
    /\ csidWriter = "effect"
    /\ tflight # {}
    /\ csid = NoItem
    /\ selectedCompany = Null
    /\ companies = << >>

\* a list answer resumes the fetch r in this step
ListResumes(r) ==
    /\ r \in tflight
    /\ r \notin tflight'
    /\ last'.op = "listDone"
    /\ last'.outcome = "ok"

FreshRunStarts ==
    /\ last'.op = "sessionSettles"
    /\ user' # Null
    /\ user'.role \in {"master", "owner"}
    /\ selectedCompany = Null
    /\ csid # NoItem
    /\ csidWriter = "setSelectedCompany"

\* C18: the stored id round-trips: after setSelectedCompany(X), a fresh
\* CompanyProvider run for a master or an owner, whatever the memberships
\* of that user are, fetches the list, and when the list holds X it selects
\* X and stores X's id again, whatever the creation dates are.
C18_PersistenceRoundTrip ==
    [][/\ FreshRunStarts => \E r \in tflight' : r.kind = "list"
       /\ \A r \in tflight :
             (/\ ListResumes(r)
              /\ r.selectedCompany = Null
              /\ csid # NoItem
              /\ FindById(companies', csid) # Null)
             => /\ selectedCompany' = FindById(companies', csid)
                /\ csid' = csid]_vars

\* C19: a stored id that names no fetched company, with no valid selection
\* in the fetch's closure, is removed before the fallback: the selected
\* company and the stored id after the run are those the same run yields
\* when the storage is empty.
C19_StaleItemRemoved ==
    [][\A r \in tflight :
          (/\ ListResumes(r)
           /\ ~stillExists(companies', r.selectedCompany)
           /\ csid # NoItem
           /\ FindById(companies', csid) = Null)
          => LET empty == Resolution(companies', r.selectedCompany, NoItem, r.user,
                                     selectedCompany)
             IN  /\ selectedCompany' = empty.selectedCompany
                 /\ csid' = empty.csid
                 /\ csid' # csid]_vars

C19_Witness ==
    /\ last.op = "listDone"
    /\ last.outcome = "ok"
    /\ last.data.saved # NoItem
    /\ FindById(companies, last.data.saved) = Null
    /\ companies = << >>
    /\ csid = NoItem

\* C20: membership beats creation order: with an empty storage and no
\* selection in memory, a user whose first membership is b and a list in
\* which a was created before b resolve to b, and b's id is stored.
C20_MembershipBeatsCreation ==
    [][\A r \in tflight :
          (/\ ListResumes(r)
           /\ r.selectedCompany = Null
           /\ csid = NoItem
           /\ FindById(companies', defaultCompanyId(r.user)) # Null)
          => /\ selectedCompany' = FindById(companies', defaultCompanyId(r.user))
             /\ csid' = defaultCompanyId(r.user)]_vars

C20_Witness ==
    /\ last.op = "listDone"
    /\ last.outcome = "ok"
    /\ last.data.selectedCompany = Null
    /\ last.data.saved = NoItem
    /\ last.data.membership = "b"
    /\ companies = << Company("a", 1), Company("b", 2) >>
    /\ selectedCompany = Company("b", 2)
    /\ csid = "b"

\* a run of fetchCompanies starts in this step for a master or an owner:
\* the identity effect after the session settled or the user changed, or
\* refreshCompanies
MultiTenantRunStarts ==
    /\ last'.op \in {"sessionSettles", "sessionUser", "refreshCompanies"}
    /\ user' # Null
    /\ user'.role \in {"master", "owner"}

\* C21: the last resort is the earliest created company: every run for a
\* master or an owner, an identity with no membership at all included,
\* fetches the list, and when the list is not empty and neither the
\* selection in memory, nor the stored id, nor the first membership names
\* one of its companies, the run selects the company created first.
C21_EarliestCreatedLastResort ==
    [][/\ MultiTenantRunStarts => \E r \in tflight' \ tflight : r.kind = "list"
       /\ \A r \in tflight :
             (/\ ListResumes(r)
              /\ Len(companies') > 0
              /\ ~stillExists(companies', r.selectedCompany)
              /\ savedCompany(companies', csid) = Null
              /\ FindById(companies', defaultCompanyId(r.user)) = Null)
             => selectedCompany' = sortedFirst(companies')]_vars

\* C22: after a run for a master or an owner whose list fetch succeeded,
\* no company is selected or the selected one is in the fetched list by
\* id; with an empty list no company is selected, whatever was before.
\* Stated for the runs during which nothing else changed the selection.
C22_SelectionWithinFreshList ==
    [][\A r \in tflight :
          (ListResumes(r) /\ selectedCompany = r.selectedCompany) =>
              \/ selectedCompany' = Null
              \/ FindById(companies', selectedCompany'.id) # Null]_vars

\* C23: a run that ends with a company selected out of a fetched list that
\* is not empty (the selection kept, the stored id restored, the first
\* membership or the earliest created) or by the team member's branch
\* leaves the id of the selected company in the storage.
C23_ResolutionPersists ==
    [][\A r \in tflight :
          (/\ r \notin tflight'
           /\ \/ ListResumes(r) /\ Len(companies') > 0
              \/ last'.op = "getDone"
           /\ selectedCompany' # Null)
          => csid' = selectedCompany'.id]_vars

\* C25: a team member with a membership fetches the company of the first
\* membership and never the list, and whether that fetch succeeds or
\* fails the selected company has the first membership's id, the list
\* holds exactly that company, and the storage holds its id.
C25_TeamMemberSingleCompany ==
    [][/\ \A r \in tflight' \ tflight :
             r.user.role = "team_member" => r.kind = "get"
       /\ \A r \in tflight :
             (/\ r \notin tflight'
              /\ last'.op \in {"getDone", "listDone"}
              /\ r.user.role = "team_member")
             => /\ last'.op = "getDone"
                /\ selectedCompany' # Null
                /\ selectedCompany'.id = defaultCompanyId(r.user)
                /\ companies' = << selectedCompany' >>
                /\ csid' = defaultCompanyId(r.user)]_vars

C25_Witness ==
    /\ last.op = "getDone"
    /\ last.outcome = "failed"
    /\ last.data.membership = "a"
    /\ selectedCompany = fallbackCompany("a")
    /\ companies = << fallbackCompany("a") >>
    /\ csid = "a"

\* C24: setSelectedCompany(t) issues the state update and then the storage
\* write: with a company, t is selected and t.id stored; with null, nothing
\* is selected and the item is removed.  No company fetch is issued and
\* the list of companies is unchanged.
C24_SetActiveFrame ==
    [][(last'.op = "setSelectedCompany" /\ last'.data # Null) =>
          LET c == last'.data
          IN  /\ Len(c) = 2
              /\ c[1].call = "setSelectedCompanyState"
              /\ selectedCompany' = c[1].arg
              /\ IF c[1].arg # Null
                 THEN /\ c[2] = [call |-> "setItem", arg |-> c[1].arg.id]
                      /\ csid' = c[1].arg.id
                 ELSE /\ c[2].call = "removeItem"
                      /\ csid' = NoItem
              /\ calls' = calls
              /\ tflight' = tflight
              /\ companies' = companies]_vars

C24_Witness ==
    /\ last.op = "setSelectedCompany"
    /\ last.data # Null
    /\ last.data[1].arg = Null
    /\ selectedCompany = Null
    /\ csid = NoItem
    /\ Len(companies) > 0
    /\ tflight # {}

-----------------------------------------------------------------------------
(* Rule Engine properties, under RuleSpec *)

\* the matching the specification describes: membership for a token
\* without the ".*" suffix, else some held permission that starts with the
\* pattern's prefix followed by a dot
ClaimedHasPermission(T, P) ==
    IF EndsWith(T, << ".", "*" >>)
    THEN \E p \in P : StartsWith(p, DropLast(T, 1))
    ELSE T \in P

\* C26: hasPermission(T) against the held permissions P is `T \in P` for
\* a T without ".*", and `some p of P starts with the prefix and a dot` for
\* a T that ends in ".*": "blog.*" matches "blog.create" and does not
\* match "blogging.create".
C26_WildcardPrefixWithDot ==
    (verdict # Null /\ sidebarRule.kind = "hasPermission") =>
        verdict.value = ClaimedHasPermission(sidebarRule.permission,
                                             ruleContext.permissions)

\* the values of the children of a composite rule
ChildValues(rule, context) ==
    [i \in 1..Len(rule.rules) |-> evaluate(rule.rules[i], context).value]

\* the child that decides: the first false one of an and, the first true
\* one of an or, and the last child when there is none
Deciding(rule, context) ==
    LET deciders == { i \in 1..Len(rule.rules) :
                        ChildValues(rule, context)[i] = (rule.kind = "or") }
    IN  IF deciders = {} THEN Len(rule.rules)
        ELSE CHOOSE i \in deciders : \A j \in deciders : i <= j

RECURSIVE VisitedUpTo(_, _, _)
\* what evaluating the first k children, each in full, visits
VisitedUpTo(rules, context, k) ==
    IF k = 0 THEN << >>
    ELSE VisitedUpTo(rules, context, k - 1) \o evaluate(rules[k], context).visited

\* C27: for a composite with at least one child, and is true iff every
\* child is true and or is true iff some child is; the children are
\* evaluated from the left and no child after the one that decides the
\* result is evaluated.
C27_CompositeShortCircuit ==
    (/\ verdict # Null
     /\ sidebarRule.kind \in {"and", "or"}
     /\ Len(sidebarRule.rules) > 0)
    => LET v == ChildValues(sidebarRule, ruleContext)
       IN  /\ sidebarRule.kind = "and" =>
                  (verdict.value <=> \A i \in DOMAIN v : v[i])
           /\ sidebarRule.kind = "or" =>
                  (verdict.value <=> \E i \in DOMAIN v : v[i])
           /\ verdict.visited =
                  VisitedUpTo(sidebarRule.rules, ruleContext,
                              Deciding(sidebarRule, ruleContext))

C27_Witness ==
    /\ verdict # Null
    /\ sidebarRule = and(<< or(<< hasPermissionRule(BlogView),
                                  hasFeatureRule("analytics") >>),
                            hasPermissionRule(BlogCreate) >>)
    /\ verdict = Verdict(FALSE, << hasPermissionRule(BlogView),
                                   hasPermissionRule(BlogCreate) >>)

\* C28: and() and or() without a child are rejected when they are made:
\* no rule with an empty list of children exists.
C28_ZeroAryRejected ==
    (sidebarRule # Null /\ sidebarRule.kind \in {"and", "or"}) =>
        Len(sidebarRule.rules) > 0

\* C29: hasFeature fails closed: hasFeature(name) is true iff the context
\* has features and name is one of them, and is false for every name when
\* the context has no features.
C29_HasFeatureFailClosed ==
    (verdict # Null /\ sidebarRule.kind = "hasFeature") =>
        /\ verdict.value <=> /\ ruleContext.features # Null
                             /\ sidebarRule.feature \in ruleContext.features.items
        /\ ruleContext.features = Null => ~verdict.value

C29_Witness ==
    /\ verdict # Null
    /\ sidebarRule = hasFeatureRule("analytics")
    /\ ruleContext.features = Null
    /\ verdict.value = FALSE

-----------------------------------------------------------------------------
(* HTTP client properties, under Spec *)

\* a response is handed to the handler that awaits it in this step
ResponseHandled ==
    /\ \E r \in Requests : inflight'[r] < inflight[r]
    /\ last'.op # "start"

-----------------------------------------------------------------------------
(* Tenant Selector properties under interleavings, under TenantSpec *)

\* C31: whenever a user is held, the session is settled and no company
\* fetch is in flight, the storage agrees with the memory: the stored id is
\* the id of the selected company, and nothing is stored exactly when no
\* company is selected.  Runs whose list fetch failed are included.
C31_StorageAgreesWithSelection ==
    (mounted /\ ~isLoading /\ user # Null /\ tflight = {}) =>
        csid = IF selectedCompany = Null THEN NoItem ELSE selectedCompany.id

\* C33: a company fetch that answers after the logout has completed does
\* not bring the tenant state back: once the answer has been handled with
\* no user held, no company is selected, the list is empty and nothing is
\* stored.
C33_LateAnswerAfterLogout ==
    (/\ mounted
     /\ ~isLoading
     /\ user = Null
     /\ last.op \in {"listDone", "getDone"})
    => /\ selectedCompany = Null
       /\ companies = << >>
       /\ csid = NoItem

\* C37: after a refresh that keeps the current selection the selected
\* record is the fetched one: when a list answer was handled, no fetch is
\* in flight and the company that was selected when the fetch was called
\* is still selected and is in the fetched list, the selected record is
\* the record of the list.  Stated for a selection that was the minimal
\* record made out of the membership when an earlier fetch failed.
C37_KeptSelectionIsFresh ==
    (/\ mounted
     /\ tflight = {}
     /\ last.op = "listDone"
     /\ last.outcome = "ok"
     /\ last.data.selectedCompany # Null
     /\ last.data.selectedCompany = fallbackCompany(last.data.selectedCompany.id)
     /\ selectedCompany # Null
     /\ selectedCompany.id = last.data.selectedCompany.id
     /\ FindById(companies, selectedCompany.id) # Null)
    => selectedCompany = FindById(companies, selectedCompany.id)

\* C32: an explicit selection is not lost to a concurrent refresh: when a
\* list fetch that was in flight while setSelectedCompany(Y) was called
\* is answered with a list that holds Y, the company selected after the
\* run is Y.
C32_SelectionSurvivesRefresh ==
    [][\A r \in tflight :
          (/\ ListResumes(r)
           /\ picked # Null
           /\ r.n \in picked.during
           /\ FindById(companies', picked.id) # Null)
          => /\ selectedCompany' # Null
             /\ selectedCompany'.id = picked.id]_vars

-----------------------------------------------------------------------------
(* Session Manager properties under interleavings, under Spec *)

\* C34: a refreshUser answer that arrives after the logout has completed
\* does not bring the user back: when the logout was the last thing
\* handled and a successful refresh answer is handled next, no user is
\* held afterwards.
C34_LateRefreshAfterLogout ==
    [][(/\ last.op = "logoutDone"
        /\ last'.op = "refreshDone"
        /\ last'.outcome = "ok")
       => user' = Null]_vars

\* C35: once the loading flag is false no login, logout, updateUser,
\* refreshUser or verifySession of the same process makes it true again,
\* and <Secured> does not render its Pending state again after it has
\* rendered another one.
C35_LoadingNeverReturns ==
    [][last'.op # "start" =>
          /\ ~isLoading => ~isLoading'
          /\ decision # "Pending" => decision' # "Pending"]_vars

C35_Witness ==
    /\ ~isLoading
    /\ last.op = "verifySession"
    /\ last.outcome = "sent"
    /\ inflight[MeReq] > 0
    /\ decision # "Pending"

C39_LoginSurvivesLateVerify ==
    [][(/\ last.op = "loginDone"
        /\ last.outcome = "ok"
        /\ last'.op = "verifyDone"
        /\ last'.outcome \in Failures)
       => user' = user]_vars

-----------------------------------------------------------------------------
(* Sidebar properties, under NavSpec *)

\* C38: what the sidebar shows agrees with the route guard: when a
\* signed-in user follows a link the sidebar shows to that user, <Secured>
\* renders the page of the link's route: it neither redirects nor refuses.
C38_VisibleLinksAllowed ==
    last.op = "sidebarClick" => decision = "Allow"

====
